---- MODULE Spec2Model ----
(***************************************************************************)
(* HtsServo: host-side driver of a serial-bus servo.                       *)
(*   src/hts_servo/utility.py   Command catalog, parameter codec           *)
(*   src/hts_servo/__init__.py  ServoController (connection, frame codec,  *)
(*                              transaction engine, device facade)         *)
(* Bytes are integers 0..255, byte strings are sequences of bytes.         *)
(* An Optional value is a sequence of length 0 (None) or 1.                *)
(***************************************************************************)
EXTENDS Integers, Sequences, FiniteSets, TLC

(* ------------------------------------------------------------------ *)
(* utility.py: Command(enum.IntEnum)                                  *)
(* ------------------------------------------------------------------ *)
SERVO_MOVE_TIME_WRITE == 1
SERVO_MOVE_TIME_READ == 2
SERVO_MOVE_TIME_WAIT_WRITE == 7
SERVO_MOVE_TIME_WAIT_READ == 8
SERVO_MOVE_START == 11
SERVO_MOVE_STOP == 12
SERVO_ID_WRITE == 13
SERVO_ID_READ == 14
SERVO_ANGLE_OFFSET_ADJUST == 17
SERVO_ANGLE_OFFSET_WRITE == 18
SERVO_ANGLE_OFFSET_READ == 19
SERVO_ANGLE_LIMIT_WRITE == 20
SERVO_ANGLE_LIMIT_READ == 21
SERVO_VIN_LIMIT_WRITE == 22
SERVO_VIN_LIMIT_READ == 23
SERVO_TEMP_MAX_LIMIT_WRITE == 24
SERVO_TEMP_MAX_LIMIT_READ == 25
SERVO_TEMP_READ == 26
SERVO_VIN_READ == 27
SERVO_POS_READ == 28
SERVO_OR_MOTOR_MODE_WRITE == 29
SERVO_OR_MOTOR_MODE_READ == 30
SERVO_LOAD_OR_UNLOAD_WRITE == 31
SERVO_LOAD_OR_UNLOAD_READ == 32
SERVO_LED_CTRL_WRITE == 33
SERVO_LED_CTRL_READ == 34
SERVO_LED_ERROR_WRITE == 35
SERVO_LED_ERROR_READ == 36

\* The members of the Command enumeration.
Command ==
    { SERVO_MOVE_TIME_WRITE, SERVO_MOVE_TIME_READ, SERVO_MOVE_TIME_WAIT_WRITE,
      SERVO_MOVE_TIME_WAIT_READ, SERVO_MOVE_START, SERVO_MOVE_STOP,
      SERVO_ID_WRITE, SERVO_ID_READ, SERVO_ANGLE_OFFSET_ADJUST,
      SERVO_ANGLE_OFFSET_WRITE, SERVO_ANGLE_OFFSET_READ,
      SERVO_ANGLE_LIMIT_WRITE, SERVO_ANGLE_LIMIT_READ, SERVO_VIN_LIMIT_WRITE,
      SERVO_VIN_LIMIT_READ, SERVO_TEMP_MAX_LIMIT_WRITE,
      SERVO_TEMP_MAX_LIMIT_READ, SERVO_TEMP_READ, SERVO_VIN_READ,
      SERVO_POS_READ, SERVO_OR_MOTOR_MODE_WRITE, SERVO_OR_MOTOR_MODE_READ,
      SERVO_LOAD_OR_UNLOAD_WRITE, SERVO_LOAD_OR_UNLOAD_READ,
      SERVO_LED_CTRL_WRITE, SERVO_LED_CTRL_READ, SERVO_LED_ERROR_WRITE,
      SERVO_LED_ERROR_READ }

\* SERVO_BRODCAST = ServoObject(0xfe)
SERVO_BRODCAST == 254

(* ------------------------------------------------------------------ *)
(* Byte-string helpers (Python slicing and sum)                       *)
(* ------------------------------------------------------------------ *)
Min(a, b) == IF a < b THEN a ELSE b
Max(a, b) == IF a > b THEN a ELSE b

\* s[i:j] of Python for 0 <= i, 0 <= j (0-based, end exclusive, clipped).
Slice(s, i, j) ==
    LET hi == Min(j, Len(s))
    IN  IF i >= hi THEN << >> ELSE [k \in 1..(hi - i) |-> s[i + k]]

\* s[i:]
From(s, i) == Slice(s, i, Len(s))

\* s[i:-1]
FromToLast(s, i) == Slice(s, i, Len(s) - 1)

RECURSIVE Sum(_)
Sum(s) == IF s = << >> THEN 0 ELSE s[1] + Sum(Tail(s))

RECURSIVE Pow256(_)
Pow256(n) == IF n = 0 THEN 1 ELSE 256 * Pow256(n - 1)

(* ------------------------------------------------------------------ *)
(* utility.py: parameter codec                                        *)
(* ------------------------------------------------------------------ *)
\* int.to_bytes raises OverflowError outside this range.
FitsBytes(param, len, is_signed) ==
    IF is_signed
    THEN /\ param >= -(Pow256(len) \div 2)
         /\ param <= (Pow256(len) \div 2) - 1
    ELSE /\ param >= 0
         /\ param <= Pow256(len) - 1

\* param.to_bytes(len, "little", is_signed): two's complement, low byte first.
param2bytes(param, len, is_signed) ==
    LET u == IF param < 0 THEN param + Pow256(len) ELSE param
    IN  [k \in 1..len |-> (u \div Pow256(k - 1)) % 256]

\* int.from_bytes(byte_arr, "little", signed = is_signed)
bytes2param(byte_arr, is_signed) ==
    LET n == Len(byte_arr)
        RECURSIVE Val(_)
        Val(k) == IF k > n THEN 0 ELSE byte_arr[k] * Pow256(k - 1) + Val(k + 1)
        u == Val(1)
    IN  IF is_signed /\ n > 0 /\ u >= Pow256(n) \div 2 THEN u - Pow256(n) ELSE u

(* ------------------------------------------------------------------ *)
(* __init__.py: frame codec used by send_command and read_response    *)
(* ------------------------------------------------------------------ *)
\* Mutant: the sum is not complemented.
Checksum_NoComplement(bytes) == Sum(bytes) % 256

\* ~sum(b) % 256 : Python's ~x is -x-1, and % yields a value in 0..255.
Checksum(bytes) == (-(Sum(bytes)) - 1) % 256

\* The buffer send_command assembles (lines 46-56).
BuildFrame(servo_id, command, params) ==
    LET head == <<85, 85, servo_id, Len(params) + 3, command>> \o params
    IN  head \o <<Checksum(From(head, 2))>>

(* ------------------------------------------------------------------ *)
(* Bounds and sampled inputs                                          *)
(* ------------------------------------------------------------------ *)
\* Longest params byte string handed to send_command directly.
MaxPayloadLen == 1
\* Most Serial objects that may be open at once before connect is cut off.
MaxOpen == 2

\* Byte values used in payloads.
PayloadBytes == {255}

RECURSIVE SeqsUpTo(_, _)
SeqsUpTo(S, n) ==
    IF n = 0 THEN { << >> }
    ELSE LET shorter == SeqsUpTo(S, n - 1)
         IN  shorter \cup { Append(s, b) : s \in { t \in shorter : Len(t) = n - 1 }, b \in S }

Payloads == SeqsUpTo(PayloadBytes, MaxPayloadLen)

\* Servo ids used as destinations: an individual servo and broadcast.
ServoIds == {1, SERVO_BRODCAST}

\* Outcome of handle.write: it returns, or raises (serial.SerialException).
WriteOutcomes == {"ok", "fail"}

(* ------------------------------------------------------------------ *)
(* State                                                              *)
(* ------------------------------------------------------------------ *)
VARIABLES
    handle,     \* ServoController.handle: << >> (None) or <<port>>
    opened,     \* the serial.Serial objects that are open (port numbers)
    timeout,    \* whether the open port has a read timeout (timeout is not None)
    rx,         \* bytes waiting in the port's input buffer (in_waiting = Len(rx))
    wire,       \* bytes of a device frame still in transit to the input buffer
    pc,         \* where the running call stands: idle, poll, read4, rest
    call        \* the running call, or the last one finished

vars == <<handle, opened, timeout, rx, wire, pc, call>>

None == << >>

\* A call of a public method: its arguments, what it did and how it ended.
NewCall(op, servo_id, args) ==
    [ op      |-> op,
      status  |-> "running",      \* running, returned, raised (none: no call)
      args    |-> args,
      sid     |-> servo_id,
      cmd     |-> None,           \* read_response's expected command (Optional)
      events  |-> << >>,          \* open, close, write on the port and read_response, in order
      written |-> << >>,          \* the bytes handle.write accepted
      buffer  |-> << >>,          \* read_response's buffer
      short   |-> FALSE,          \* a handle.read returned fewer bytes than asked
      resp    |-> << >>,          \* what read_response returned
      err     |-> "none",
      ret     |-> << >>,
      warned  |-> FALSE,          \* warnings.warn was called
      answered |-> FALSE ]        \* the bus has answered the frame this call wrote

\* No call is under way and the last one's outcome has been taken by its caller.
NoCall == [NewCall("none", 0, << >>) EXCEPT !.status = "none"]

Raise(c, e) == [c EXCEPT !.status = "raised", !.err = e]
Return(c, v) == [c EXCEPT !.status = "returned", !.ret = v]

\* check_handle (lines 18-22): the error it raises, or "none".
check_handle == IF handle = None THEN "RuntimeError: not connected" ELSE "none"

Init ==
    /\ handle = None
    /\ opened = {}
    /\ timeout = FALSE
    /\ rx = << >>
    /\ wire = << >>
    /\ pc = "idle"
    /\ call = NoCall

(* connect / disconnect                                               *)
(* ------------------------------------------------------------------ *)
\* The port number serial.Serial(...) gets: a new object, distinct from the open ones.
NewPort == CHOOSE p \in 1..(MaxOpen + 1) : p \notin opened

\* How a call that is over leaves the controller.
Finish(c) ==
    /\ call' = c
    /\ pc' = "idle"

\* Mutant: connect opens a port without looking at the handle it holds.
connect_Always(has_timeout, open_ok) ==
    /\ pc = "idle"
    /\ Cardinality(opened) < MaxOpen
    /\ LET c == NewCall("connect", 0, <<has_timeout>>)
       IN  IF ~open_ok
           THEN /\ Finish(Raise(c, "SerialException"))
                /\ UNCHANGED <<handle, opened, timeout, rx, wire>>
           ELSE /\ handle' = <<NewPort>>
                /\ opened' = opened \cup {NewPort}
                /\ timeout' = has_timeout
                /\ rx' = << >>
                /\ wire' = << >>
                /\ Finish(Return([c EXCEPT !.events = <<"open">>], << >>))

\* connect(device, baudrate, timeout): has_timeout is "timeout is not None";
\* open_ok is whether serial.Serial(...) opens the device or raises.
connect(has_timeout, open_ok) ==
    /\ pc = "idle"
    /\ Cardinality(opened) < MaxOpen
    /\ LET c == NewCall("connect", 0, <<has_timeout>>)
       IN  IF handle # None
           THEN /\ Finish(Return(c, << >>))
                /\ UNCHANGED <<handle, opened, timeout, rx, wire>>
           ELSE IF ~open_ok
           THEN /\ Finish(Raise(c, "SerialException"))
                /\ UNCHANGED <<handle, opened, timeout, rx, wire>>
           ELSE /\ handle' = <<NewPort>>
                /\ opened' = opened \cup {NewPort}
                /\ timeout' = has_timeout
                /\ rx' = << >>
                /\ wire' = << >>
                /\ Finish(Return([c EXCEPT !.events = <<"open">>], << >>))

disconnect ==
    /\ pc = "idle"
    /\ LET c == NewCall("disconnect", 0, << >>)
       IN  IF check_handle # "none"
           THEN /\ Finish(Raise(c, check_handle))
                /\ UNCHANGED <<handle, opened, timeout, rx, wire>>
           ELSE /\ opened' = opened \ {handle[1]}
                /\ handle' = None
                /\ timeout' = FALSE
                /\ rx' = << >>
                /\ wire' = << >>
                /\ Finish(Return([c EXCEPT !.events = <<"close">>], << >>))

(* ------------------------------------------------------------------ *)
(* send_command                                                       *)
(* ------------------------------------------------------------------ *)
\* send_command run inside call c: c as the method leaves it
\* (status "running" when the write went through).
Transmit(c, servo_id, command, params, wr) ==
    IF check_handle # "none" THEN Raise(c, check_handle)
    ELSE IF \/ ~FitsBytes(servo_id, 1, FALSE)
            \/ ~FitsBytes(Len(params) + 3, 1, FALSE)
            \/ ~FitsBytes(command, 1, FALSE)
    THEN Raise(c, "OverflowError")
    ELSE LET c1 == [c EXCEPT !.events = Append(@, "write")]
         IN  IF wr = "ok"
             THEN [c1 EXCEPT !.written = @ \o BuildFrame(servo_id, command, params)]
             ELSE Raise(c1, "SerialException")

\* A method whose last statement is a send_command: it returns None after it.
SendAndReturn(c, servo_id, command, params, wr) ==
    LET c1 == Transmit(c, servo_id, command, params, wr)
    IN  IF c1.status = "raised" THEN c1 ELSE Return(c1, << >>)

\* A call that does not read ends here; the port's buffers are untouched.
Done(c) ==
    /\ Finish(c)
    /\ UNCHANGED <<handle, opened, timeout, rx, wire>>

send_command(servo_id, command, params, wr) ==
    /\ pc = "idle"
    /\ Done(SendAndReturn(NewCall("send_command", servo_id, <<command, params>>),
                          servo_id, command, params, wr))

(* ------------------------------------------------------------------ *)
(* Facade: methods that only write                                    *)
(* ------------------------------------------------------------------ *)
\* The name id inside set_id (line 145): no parameter or local of that name
\* exists, so it is the builtin function id.
id == [type |-> "builtin_function_or_method", value |-> 0]

\* Mutant: the range checks come before check_handle.
set_move_time_CheckLate(position, time, is_wait, servo_id, wr) ==
    /\ pc = "idle"
    /\ LET c == NewCall("set_move_time", servo_id, <<position, time, is_wait>>)
       IN  Done(IF position < 0 \/ position > 1000
                THEN Raise(c, "RuntimeError: Invalid position")
                ELSE IF time < 0 \/ time > 30000
                THEN Raise(c, "RuntimeError: Invalid time")
                ELSE IF check_handle # "none" THEN Raise(c, check_handle)
                ELSE IF is_wait
                THEN SendAndReturn(c, servo_id, SERVO_MOVE_TIME_WAIT_WRITE,
                         param2bytes(position, 2, FALSE) \o param2bytes(time, 2, FALSE), wr)
                ELSE SendAndReturn(c, servo_id, SERVO_MOVE_TIME_WRITE,
                         param2bytes(position, 2, FALSE) \o param2bytes(time, 2, FALSE), wr))

set_move_time(position, time, is_wait, servo_id, wr) ==
    /\ pc = "idle"
    /\ LET c == NewCall("set_move_time", servo_id, <<position, time, is_wait>>)
       IN  Done(IF check_handle # "none" THEN Raise(c, check_handle)
                ELSE IF position < 0 \/ position > 1000
                THEN Raise(c, "RuntimeError: Invalid position")
                ELSE IF time < 0 \/ time > 30000
                THEN Raise(c, "RuntimeError: Invalid time")
                ELSE IF is_wait
                THEN SendAndReturn(c, servo_id, SERVO_MOVE_TIME_WAIT_WRITE,
                         param2bytes(position, 2, FALSE) \o param2bytes(time, 2, FALSE), wr)
                ELSE SendAndReturn(c, servo_id, SERVO_MOVE_TIME_WRITE,
                         param2bytes(position, 2, FALSE) \o param2bytes(time, 2, FALSE), wr))

start_move(servo_id, wr) ==
    /\ pc = "idle"
    /\ LET c == NewCall("start_move", servo_id, << >>)
       IN  Done(IF check_handle # "none" THEN Raise(c, check_handle)
                ELSE SendAndReturn(c, servo_id, SERVO_MOVE_START, << >>, wr))

stop_move(servo_id, wr) ==
    /\ pc = "idle"
    /\ LET c == NewCall("stop_move", servo_id, << >>)
       IN  Done(IF check_handle # "none" THEN Raise(c, check_handle)
                ELSE SendAndReturn(c, servo_id, SERVO_MOVE_STOP, << >>, wr))

set_id(target_id, servo_id, wr) ==
    /\ pc = "idle"
    /\ LET c == NewCall("set_id", servo_id, <<target_id>>)
           w == [c EXCEPT !.warned = (servo_id = SERVO_BRODCAST)]
       IN  Done(IF check_handle # "none" THEN Raise(c, check_handle)
                ELSE IF id.type # "int"
                THEN Raise(c, "TypeError")     \* id < 0: '<' between a function and an int
                ELSE IF id.value < 0 \/ id.value > 253
                THEN Raise(c, "RuntimeError")
                ELSE IF ~FitsBytes(target_id, 1, FALSE)
                THEN Raise(w, "OverflowError")
                ELSE SendAndReturn(w, servo_id, SERVO_MOVE_STOP,
                                   param2bytes(target_id, 1, FALSE), wr))

set_angle_offset(offset, is_forever, servo_id, wr) ==
    /\ pc = "idle"
    /\ LET c == NewCall("set_angle_offset", servo_id, <<offset, is_forever>>)
       IN  Done(IF check_handle # "none" THEN Raise(c, check_handle)
                ELSE IF offset < -125 \/ offset > 125
                THEN Raise(c, "ValueError: Invalid offset")
                ELSE IF is_forever
                THEN SendAndReturn(c, servo_id, SERVO_ANGLE_OFFSET_WRITE,
                                   param2bytes(offset, 1, TRUE), wr)
                ELSE SendAndReturn(c, servo_id, SERVO_ANGLE_OFFSET_ADJUST,
                                   param2bytes(offset, 1, TRUE), wr))

set_angle_limit(min, max, servo_id, wr) ==
    /\ pc = "idle"
    /\ LET c == NewCall("set_angle_limit", servo_id, <<min, max>>)
       IN  Done(IF check_handle # "none" THEN Raise(c, check_handle)
                ELSE IF min < 0 \/ min > 1000
                THEN Raise(c, "RuntimeError: Invalid min angle")
                ELSE IF max < 0 \/ max > 1000
                THEN Raise(c, "RuntimeError: Invalid max angle")
                ELSE SendAndReturn(c, servo_id, SERVO_ANGLE_LIMIT_WRITE,
                         param2bytes(min, 2, FALSE) \o param2bytes(max, 2, FALSE), wr))

\* Mutant: max is not checked.
set_vin_limit_MaxUnchecked(min, max, servo_id, wr) ==
    /\ pc = "idle"
    /\ LET c == NewCall("set_vin_limit", servo_id, <<min, max>>)
       IN  Done(IF check_handle # "none" THEN Raise(c, check_handle)
                ELSE IF min < 4500 \/ min > 12000
                THEN Raise(c, "RuntimeError: Invalid min vin")
                ELSE SendAndReturn(c, servo_id, SERVO_VIN_LIMIT_WRITE,
                         param2bytes(min, 2, FALSE) \o param2bytes(max, 2, FALSE), wr))

set_vin_limit(min, max, servo_id, wr) ==
    /\ pc = "idle"
    /\ LET c == NewCall("set_vin_limit", servo_id, <<min, max>>)
       IN  Done(IF check_handle # "none" THEN Raise(c, check_handle)
                ELSE IF min < 4500 \/ min > 12000
                THEN Raise(c, "RuntimeError: Invalid min vin")
                ELSE IF max < 4500 \/ max > 12000
                THEN Raise(c, "RuntimeError: Invalid max vin")
                ELSE SendAndReturn(c, servo_id, SERVO_VIN_LIMIT_WRITE,
                         param2bytes(min, 2, FALSE) \o param2bytes(max, 2, FALSE), wr))

set_max_temp_limit(max, servo_id, wr) ==
    /\ pc = "idle"
    /\ LET c == NewCall("set_max_temp_limit", servo_id, <<max>>)
       IN  Done(IF check_handle # "none" THEN Raise(c, check_handle)
                ELSE IF max < 50 \/ max > 100
                THEN Raise(c, "RuntimeError: Invalid max temp")
                ELSE SendAndReturn(c, servo_id, SERVO_TEMP_MAX_LIMIT_WRITE,
                                   param2bytes(max, 2, FALSE), wr))

\* speed is Optional[int]: None or <<speed>>.
set_motor_mode(speed, servo_id, wr) ==
    /\ pc = "idle"
    /\ LET c == NewCall("set_motor_mode", servo_id, <<speed>>)
       IN  Done(IF check_handle # "none" THEN Raise(c, check_handle)
                ELSE IF speed = None
                THEN SendAndReturn(c, servo_id, SERVO_OR_MOTOR_MODE_WRITE,
                                   <<0, 0, 0, 0>>, wr)
                ELSE IF speed[1] < -1000 \/ speed[1] > 1000
                THEN Raise(c, "ValueError: Invalid speed")
                ELSE SendAndReturn(c, servo_id, SERVO_TEMP_MAX_LIMIT_WRITE,
                                   <<1, 0>> \o param2bytes(speed[1], 2, TRUE), wr))

set_is_load(is_load, servo_id, wr) ==
    /\ pc = "idle"
    /\ LET c == NewCall("set_is_load", servo_id, <<is_load>>)
       IN  Done(IF check_handle # "none" THEN Raise(c, check_handle)
                ELSE SendAndReturn(c, servo_id, SERVO_LOAD_OR_UNLOAD_WRITE,
                                   <<IF is_load THEN 1 ELSE 0>>, wr))

set_led(is_on, servo_id, wr) ==
    /\ pc = "idle"
    /\ LET c == NewCall("set_led", servo_id, <<is_on>>)
       IN  Done(IF check_handle # "none" THEN Raise(c, check_handle)
                ELSE SendAndReturn(c, servo_id, SERVO_LED_CTRL_WRITE,
                                   <<IF is_on THEN 1 ELSE 0>>, wr))

\* status is read before it is ever assigned (line 328): UnboundLocalError.
set_led_error(temp_warn, vin_warn, stick_warn, servo_id) ==
    /\ pc = "idle"
    /\ LET c == NewCall("set_led_error", servo_id, <<temp_warn, vin_warn, stick_warn>>)
       IN  Done(IF check_handle # "none" THEN Raise(c, check_handle)
                ELSE Raise(c, "UnboundLocalError"))

(* ------------------------------------------------------------------ *)
(* read_response                                                      *)
(* ------------------------------------------------------------------ *)
\* read_response up to its polling loop (lines 71-74), inside call c.
Enter(c, servo_id, command) ==
    IF check_handle # "none"
    THEN Done(Raise(c, check_handle))
    ELSE /\ call' = [c EXCEPT !.sid = servo_id, !.cmd = command,
                              !.events = Append(@, "read_response")]
         /\ pc' = "poll"
         /\ UNCHANGED <<handle, opened, timeout, rx, wire>>

\* handle.read(n) returns once n bytes are there, or when the port's timeout expires.
ReadReady(n) == Len(rx) >= n \/ timeout
\* What handle.read(n) then returns (nothing for n <= 0).
Taken(n) == Slice(rx, 0, Max(n, 0))

\* Mutant: the destination byte is not compared with servo_id.
CheckHeader_AnyDestination(buffer, servo_id) ==
    IF Slice(buffer, 0, 2) # <<85, 85>>
    THEN "TypeError"
    ELSE IF Len(buffer) < 4
    THEN "IndexError"
    ELSE "none"

\* Lines 78-83: the checks on the first read, and the fetch of the length byte.
CheckHeader(buffer, servo_id) ==
    IF Slice(buffer, 0, 2) # <<85, 85>>
    THEN "TypeError"     \* hex() of a bytes object, while the RuntimeError is built
    ELSE IF servo_id # SERVO_BRODCAST /\ Len(buffer) < 3
    THEN "IndexError"
    ELSE IF servo_id # SERVO_BRODCAST /\ buffer[3] # servo_id
    THEN "RuntimeError: Invalid response servo ID"
    ELSE IF Len(buffer) < 4
    THEN "IndexError"
    ELSE "none"

\* Lines 86-93: the checks on the whole buffer, and Command(buffer[4]).
CheckBody(buffer, command) ==
    IF command # None /\ Len(buffer) < 5
    THEN "IndexError"
    ELSE IF command # None /\ buffer[5] # command[1]
    THEN "RuntimeError: Invalid response command"
    ELSE IF buffer[Len(buffer)] # Checksum(FromToLast(buffer, 2))
    THEN "RuntimeError: Invalid response checksum"
    ELSE IF Len(buffer) < 5
    THEN "IndexError"
    ELSE IF buffer[5] \notin Command
    THEN "ValueError"
    ELSE "none"

\* Mutant: the payload slice runs to the end of the buffer (buffer[5:]).
Response_KeepsChecksum(buffer) == <<buffer[5], From(buffer, 5)>>

\* Line 93: Command(buffer[4]), buffer[5:-1]
Response(buffer) == <<buffer[5], FromToLast(buffer, 5)>>

\* A direct call of read_response; command is Optional[Command].
read_response(servo_id, command) ==
    /\ pc = "idle"
    /\ Enter(NewCall("read_response", servo_id, <<command>>), servo_id, command)

(* ------------------------------------------------------------------ *)
(* Facade: methods that write a request and read its reply            *)
(* ------------------------------------------------------------------ *)
\* Mutant: the request is written twice before the reply is read.
Query_WriteTwice(c, servo_id, command, wr) ==
    LET c1 == Transmit(c, servo_id, command, << >>, wr)
        c2 == IF c1.status = "raised" THEN c1
              ELSE Transmit(c1, servo_id, command, << >>, wr)
    IN  IF c2.status = "raised" THEN Done(c2) ELSE Enter(c2, servo_id, <<command>>)

\* cls.send_command(servo_id, X) followed by cls.read_response(servo_id, X).
Query(c, servo_id, command, wr) ==
    LET c1 == Transmit(c, servo_id, command, << >>, wr)
    IN  IF c1.status = "raised" THEN Done(c1) ELSE Enter(c1, servo_id, <<command>>)

get_move_time(servo_id, is_wait, wr) ==
    /\ pc = "idle"
    /\ LET c == NewCall("get_move_time", servo_id, <<is_wait>>)
       IN  IF check_handle # "none" THEN Done(Raise(c, check_handle))
           ELSE IF is_wait
           THEN Query(c, servo_id, SERVO_MOVE_TIME_WAIT_READ, wr)
           ELSE Query(c, servo_id, SERVO_MOVE_TIME_READ, wr)

\* Line 120 keeps the whole (Command, payload) tuple when is_wait, and
\* bytes2param of a tuple holding a bytes object raises TypeError.
get_move_time_return(c) ==
    IF c.args[1]
    THEN Raise(c, "TypeError")
    ELSE Return(c, <<bytes2param(Slice(c.resp[2], 0, 2), FALSE),
                     bytes2param(Slice(c.resp[2], 2, 4), FALSE)>>)

get_id(servo_id, wr) ==
    /\ pc = "idle"
    /\ LET c == NewCall("get_id", servo_id, << >>)
       IN  IF check_handle # "none" THEN Done(Raise(c, check_handle))
           ELSE Query(c, servo_id, SERVO_ID_READ, wr)

get_id_return(c) ==
    IF c.resp[2] = << >> THEN Raise(c, "IndexError") ELSE Return(c, <<c.resp[2][1]>>)

get_angle_offset(servo_id, wr) ==
    /\ pc = "idle"
    /\ LET c == NewCall("get_angle_offset", servo_id, << >>)
       IN  IF check_handle # "none" THEN Done(Raise(c, check_handle))
           ELSE Query(c, servo_id, SERVO_ID_READ, wr)

get_angle_offset_return(c) == Return(c, <<bytes2param(c.resp[2], TRUE)>>)

get_angle_limit(servo_id, wr) ==
    /\ pc = "idle"
    /\ LET c == NewCall("get_angle_limit", servo_id, << >>)
       IN  IF check_handle # "none" THEN Done(Raise(c, check_handle))
           ELSE Query(c, servo_id, SERVO_ANGLE_LIMIT_READ, wr)

get_angle_limit_return(c) ==
    Return(c, <<bytes2param(Slice(c.resp[2], 0, 2), FALSE),
                bytes2param(Slice(c.resp[2], 2, 4), FALSE)>>)

get_vin_limit(servo_id, wr) ==
    /\ pc = "idle"
    /\ LET c == NewCall("get_vin_limit", servo_id, << >>)
       IN  IF check_handle # "none" THEN Done(Raise(c, check_handle))
           ELSE Query(c, servo_id, SERVO_VIN_LIMIT_READ, wr)

get_vin_limit_return(c) ==
    Return(c, <<bytes2param(Slice(c.resp[2], 0, 2), FALSE),
                bytes2param(Slice(c.resp[2], 2, 4), FALSE)>>)

get_max_temp_limit(servo_id, wr) ==
    /\ pc = "idle"
    /\ LET c == NewCall("get_max_temp_limit", servo_id, << >>)
       IN  IF check_handle # "none" THEN Done(Raise(c, check_handle))
           ELSE Query(c, servo_id, SERVO_TEMP_MAX_LIMIT_READ, wr)

get_max_temp_limit_return(c) == Return(c, <<bytes2param(c.resp[2], FALSE)>>)

get_temp(servo_id, wr) ==
    /\ pc = "idle"
    /\ LET c == NewCall("get_temp", servo_id, << >>)
       IN  IF check_handle # "none" THEN Done(Raise(c, check_handle))
           ELSE Query(c, servo_id, SERVO_TEMP_READ, wr)

get_temp_return(c) == Return(c, <<bytes2param(c.resp[2], FALSE)>>)

get_vin(servo_id, wr) ==
    /\ pc = "idle"
    /\ LET c == NewCall("get_vin", servo_id, << >>)
       IN  IF check_handle # "none" THEN Done(Raise(c, check_handle))
           ELSE Query(c, servo_id, SERVO_VIN_READ, wr)

get_vin_return(c) == Return(c, <<bytes2param(c.resp[2], FALSE)>>)

get_pos(servo_id, wr) ==
    /\ pc = "idle"
    /\ LET c == NewCall("get_pos", servo_id, << >>)
       IN  IF check_handle # "none" THEN Done(Raise(c, check_handle))
           ELSE Query(c, servo_id, SERVO_POS_READ, wr)

get_pos_return(c) == Return(c, <<bytes2param(c.resp[2], FALSE)>>)

get_motor_mode(servo_id, wr) ==
    /\ pc = "idle"
    /\ LET c == NewCall("get_motor_mode", servo_id, << >>)
       IN  IF check_handle # "none" THEN Done(Raise(c, check_handle))
           ELSE Query(c, servo_id, SERVO_OR_MOTOR_MODE_READ, wr)

\* bool(response[0]), bytes2param(response[2:3])
get_motor_mode_return(c) ==
    IF c.resp[2] = << >> THEN Raise(c, "IndexError")
    ELSE Return(c, <<c.resp[2][1] # 0, bytes2param(Slice(c.resp[2], 2, 3), FALSE)>>)

get_is_load(servo_id, wr) ==
    /\ pc = "idle"
    /\ LET c == NewCall("get_is_load", servo_id, << >>)
       IN  IF check_handle # "none" THEN Done(Raise(c, check_handle))
           ELSE Query(c, servo_id, SERVO_LOAD_OR_UNLOAD_READ, wr)

get_is_load_return(c) ==
    IF c.resp[2] = << >> THEN Raise(c, "IndexError") ELSE Return(c, <<c.resp[2][1] # 0>>)

get_led(servo_id, wr) ==
    /\ pc = "idle"
    /\ LET c == NewCall("get_led", servo_id, << >>)
       IN  IF check_handle # "none" THEN Done(Raise(c, check_handle))
           ELSE Query(c, servo_id, SERVO_LED_CTRL_READ, wr)

get_led_return(c) ==
    IF c.resp[2] = << >> THEN Raise(c, "IndexError") ELSE Return(c, <<c.resp[2][1] # 0>>)

get_led_error(servo_id, wr) ==
    /\ pc = "idle"
    /\ LET c == NewCall("get_led_error", servo_id, << >>)
       IN  IF check_handle # "none" THEN Done(Raise(c, check_handle))
           ELSE Query(c, servo_id, SERVO_LED_ERROR_READ, wr)

\* status & 0x01, status & 0x02, status & 0x04
get_led_error_return(c) ==
    IF c.resp[2] = << >> THEN Raise(c, "IndexError")
    ELSE LET status == c.resp[2][1]
         IN  Return(c, <<status % 2 = 1, (status \div 2) % 2 = 1, (status \div 4) % 2 = 1>>)

\* read_response hands its result to the method that called it.
Resume(c) ==
    CASE c.op = "read_response"      -> Return(c, c.resp)
      [] c.op = "get_move_time"      -> get_move_time_return(c)
      [] c.op = "get_id"             -> get_id_return(c)
      [] c.op = "get_angle_offset"   -> get_angle_offset_return(c)
      [] c.op = "get_angle_limit"    -> get_angle_limit_return(c)
      [] c.op = "get_vin_limit"      -> get_vin_limit_return(c)
      [] c.op = "get_max_temp_limit" -> get_max_temp_limit_return(c)
      [] c.op = "get_temp"           -> get_temp_return(c)
      [] c.op = "get_vin"            -> get_vin_return(c)
      [] c.op = "get_pos"            -> get_pos_return(c)
      [] c.op = "get_motor_mode"     -> get_motor_mode_return(c)
      [] c.op = "get_is_load"        -> get_is_load_return(c)
      [] c.op = "get_led"            -> get_led_return(c)
      [] c.op = "get_led_error"      -> get_led_error_return(c)

(* ------------------------------------------------------------------ *)
(* read_response: the steps at which it waits for the port            *)
(* ------------------------------------------------------------------ *)
\* while cls.handle.in_waiting == 0: pass
Poll ==
    /\ pc = "poll"
    /\ rx # << >>
    /\ pc' = "read4"
    /\ UNCHANGED <<handle, opened, timeout, rx, wire, call>>

\* Mutant: a rejected header also discards what is left in the input buffer.
ReadHeader_DrainsOnReject ==
    /\ pc = "read4"
    /\ ReadReady(4)
    /\ LET b  == Taken(4)
           c1 == [call EXCEPT !.buffer = b, !.short = Len(b) < 4]
           e  == CheckHeader(b, call.sid)
       IN  IF e # "none"
           THEN rx' = << >> /\ Finish(Raise(c1, e))
           ELSE rx' = From(rx, Len(b)) /\ call' = c1 /\ pc' = "rest"
    /\ UNCHANGED <<handle, opened, timeout, wire>>

\* buffer = cls.handle.read(4), then lines 78-83
ReadHeader ==
    /\ pc = "read4"
    /\ ReadReady(4)
    /\ LET b  == Taken(4)
           c1 == [call EXCEPT !.buffer = b, !.short = Len(b) < 4]
           e  == CheckHeader(b, call.sid)
       IN  /\ rx' = From(rx, Len(b))
           /\ IF e # "none"
              THEN Finish(Raise(c1, e))
              ELSE call' = c1 /\ pc' = "rest"
    /\ UNCHANGED <<handle, opened, timeout, wire>>

\* buffer += cls.handle.read(length - 1), then lines 86-93 and the caller's decoding
ReadBody ==
    /\ pc = "rest"
    /\ LET length == call.buffer[4]
           data   == Taken(length - 1)
           b      == call.buffer \o data
           c1     == [call EXCEPT !.buffer = b, !.short = Len(data) < length - 1]
           e      == CheckBody(b, call.cmd)
       IN  /\ ReadReady(length - 1)
           /\ rx' = From(rx, Len(data))
           /\ IF e # "none"
              THEN Finish(Raise(c1, e))
              ELSE Finish(Resume([c1 EXCEPT !.resp = Response(b)]))
    /\ UNCHANGED <<handle, opened, timeout, wire>>

(* ------------------------------------------------------------------ *)
(* The bus: what the port's input buffer receives                     *)
(* ------------------------------------------------------------------ *)
\* Commands whose reply carries four bytes (two 16-bit fields, or mode and speed).
WideReplies ==
    { SERVO_MOVE_TIME_READ, SERVO_MOVE_TIME_WAIT_READ, SERVO_ANGLE_LIMIT_READ,
      SERVO_VIN_LIMIT_READ, SERVO_OR_MOTOR_MODE_READ }

\* Payloads a servo puts in its reply to command k; the empty one is a
\* reply that carries no parameter at all.
ReplyPayloads(k) ==
    IF k \in WideReplies
    THEN { << >>, <<244, 1, 232, 3>>, <<1, 0, 24, 252>>, <<1, 0, 232, 3>>, <<0, 0, 0, 0>> }
    ELSE { << >>, <<0>>, <<5>>, <<131>>, <<232, 3>> }

ReadCommands ==
    { SERVO_MOVE_TIME_READ, SERVO_MOVE_TIME_WAIT_READ, SERVO_ID_READ,
      SERVO_ANGLE_OFFSET_READ, SERVO_ANGLE_LIMIT_READ, SERVO_VIN_LIMIT_READ,
      SERVO_TEMP_MAX_LIMIT_READ, SERVO_TEMP_READ, SERVO_VIN_READ, SERVO_POS_READ,
      SERVO_OR_MOTOR_MODE_READ, SERVO_LOAD_OR_UNLOAD_READ, SERVO_LED_CTRL_READ,
      SERVO_LED_ERROR_READ }

\* The servo that answers a request addressed to destination d.
Answering(d) == IF d = SERVO_BRODCAST THEN 1 ELSE d
OtherServo(d) == IF d = 1 THEN 2 ELSE 1
OtherCommand(k) == IF k = SERVO_POS_READ THEN SERVO_VIN_READ ELSE SERVO_POS_READ

\* frame with its last byte changed
BadChecksum(frame) == [frame EXCEPT ![Len(frame)] = (@ + 1) % 256]
\* frame with its second byte changed
BadHeader(frame) == [frame EXCEPT ![2] = 86]

\* What may come back for the request `written`: the servo's reply with any
\* payload, or a frame that is wrong in one respect.
Replies(written) ==
    LET d  == written[3]
        k  == written[5]
        me == Answering(d)
        plain == BuildFrame(me, k, <<5>>)
    IN  { BuildFrame(me, k, p) : p \in ReplyPayloads(k) }
        \cup { BuildFrame(me, OtherCommand(k), <<5>>),
               BuildFrame(OtherServo(me), k, <<5>>),
               BadChecksum(plain),
               BadHeader(plain) }

\* The frames that may answer the call under way.
Answers == IF Len(call.written) < 5 THEN {} ELSE Replies(call.written)

\* Sizes of the first part of a frame that arrives in two parts.
FirstParts == {1, 3, 5}

\* The servo answers the read request of the call under way.
DeviceReply(frame) ==
    /\ handle # None
    /\ call.written # << >>
    /\ ~call.answered
    /\ call.written[5] \in ReadCommands
    /\ call.op # "send_command"
    /\ frame \in Answers
    /\ wire' = wire \o frame
    /\ call' = [call EXCEPT !.answered = TRUE]
    /\ UNCHANGED <<handle, opened, timeout, rx, pc>>

\* The bytes a direct send_command wrote are fed back to the port, all at once.
Loopback ==
    /\ handle # None
    /\ call.op = "send_command"
    /\ call.written # << >>
    /\ ~call.answered
    /\ rx' = rx \o call.written
    /\ call' = [call EXCEPT !.answered = TRUE]
    /\ UNCHANGED <<handle, opened, timeout, wire, pc>>

\* k bytes in transit reach the input buffer.
Arrive(k) ==
    /\ handle # None
    /\ k \in 1..Len(wire)
    /\ rx' = rx \o Slice(wire, 0, k)
    /\ wire' = From(wire, k)
    /\ UNCHANGED <<handle, opened, timeout, pc, call>>

(* ------------------------------------------------------------------ *)
(* Sampled arguments                                                  *)
(* ------------------------------------------------------------------ *)
\* Each argument is tried just outside and just inside both ends of its range;
\* of two arguments, one is varied while the other is valid.
AroundRange(lo, hi) == {lo - 1, lo, hi, hi + 1}
Pairs(A, a, B, b) == { <<x, b>> : x \in A } \cup { <<a, y>> : y \in B }

MoveTimes   == Pairs(AroundRange(0, 1000), 500, AroundRange(0, 30000), 1000)
TargetIds   == AroundRange(0, 253)
Offsets     == AroundRange(-125, 125)
AngleLimits == Pairs(AroundRange(0, 1000), 0, AroundRange(0, 1000), 1000)
VinLimits   == Pairs(AroundRange(4500, 12000), 4500, AroundRange(4500, 12000), 12000)
Temps       == AroundRange(50, 100)
Speeds      == {None} \cup { <<v>> : v \in AroundRange(-1000, 1000) \cup {0} }

\* Nothing unread in the input buffer and nothing in transit.
LineQuiet == rx = << >> /\ wire = << >>

\* Expected commands tried by direct read_response calls: none, the command of
\* the frame at the head of the line, and one fixed command.
ExpectedCommands ==
    LET line == rx \o wire
    IN  {None, <<SERVO_POS_READ>>}
        \cup (IF Len(line) >= 5 /\ line[5] \in Command THEN {<<line[5]>>} ELSE {})

\* The caller has taken the outcome of its last call and makes the next one.
Ready == call.status = "none"

\* The caller takes the outcome of the call that ended (the script at the end of
\* __init__.py prints each result before it makes the next call).
Forget ==
    /\ pc = "idle"
    /\ call.status \in {"returned", "raised"}
    /\ call' = NoCall
    /\ UNCHANGED <<handle, opened, timeout, rx, wire, pc>>

\* Calls that write are started on a quiet line: nothing unread, nothing in transit.
Writes ==
    \/ \E servo_id \in ServoIds, command \in Command, params \in Payloads, wr \in WriteOutcomes  :
          Ready /\ LineQuiet /\ send_command(servo_id, command, params, wr)
    \/ \E a \in MoveTimes, is_wait \in BOOLEAN, servo_id \in ServoIds, wr \in WriteOutcomes :
          Ready /\ LineQuiet /\ set_move_time(a[1], a[2], is_wait, servo_id, wr)
    \/ \E servo_id \in ServoIds, wr \in WriteOutcomes  :
          Ready /\ LineQuiet /\ start_move(servo_id, wr)
    \/ \E servo_id \in ServoIds, wr \in WriteOutcomes  :
          Ready /\ LineQuiet /\ stop_move(servo_id, wr)
    \/ \E target_id \in TargetIds, servo_id \in ServoIds, wr \in WriteOutcomes  :
          Ready /\ LineQuiet /\ set_id(target_id, servo_id, wr)
    \/ \E offset \in Offsets, is_forever \in BOOLEAN, servo_id \in ServoIds, wr \in WriteOutcomes  :
          Ready /\ LineQuiet /\ set_angle_offset(offset, is_forever, servo_id, wr)
    \/ \E a \in AngleLimits, servo_id \in ServoIds, wr \in WriteOutcomes :
          Ready /\ LineQuiet /\ set_angle_limit(a[1], a[2], servo_id, wr)
    \/ \E a \in VinLimits, servo_id \in ServoIds, wr \in WriteOutcomes :
          Ready /\ LineQuiet /\ set_vin_limit(a[1], a[2], servo_id, wr)
    \/ \E max \in Temps, servo_id \in ServoIds, wr \in WriteOutcomes  :
          Ready /\ LineQuiet /\ set_max_temp_limit(max, servo_id, wr)
    \/ \E speed \in Speeds, servo_id \in ServoIds, wr \in WriteOutcomes  :
          Ready /\ LineQuiet /\ set_motor_mode(speed, servo_id, wr)
    \/ \E is_load \in BOOLEAN, servo_id \in ServoIds, wr \in WriteOutcomes  :
          Ready /\ LineQuiet /\ set_is_load(is_load, servo_id, wr)
    \/ \E is_on \in BOOLEAN, servo_id \in ServoIds, wr \in WriteOutcomes  :
          Ready /\ LineQuiet /\ set_led(is_on, servo_id, wr)
    \/ \E temp_warn \in BOOLEAN, vin_warn \in BOOLEAN, stick_warn \in BOOLEAN,
          servo_id \in ServoIds  :
          Ready /\ LineQuiet /\ set_led_error(temp_warn, vin_warn, stick_warn, servo_id)

Queries ==
    \/ \E servo_id \in ServoIds, is_wait \in BOOLEAN, wr \in WriteOutcomes  :
          Ready /\ LineQuiet /\ get_move_time(servo_id, is_wait, wr)
    \/ \E servo_id \in ServoIds, wr \in WriteOutcomes  :
          Ready /\ LineQuiet /\ get_id(servo_id, wr)
    \/ \E servo_id \in ServoIds, wr \in WriteOutcomes  :
          Ready /\ LineQuiet /\ get_angle_offset(servo_id, wr)
    \/ \E servo_id \in ServoIds, wr \in WriteOutcomes  :
          Ready /\ LineQuiet /\ get_angle_limit(servo_id, wr)
    \/ \E servo_id \in ServoIds, wr \in WriteOutcomes  :
          Ready /\ LineQuiet /\ get_vin_limit(servo_id, wr)
    \/ \E servo_id \in ServoIds, wr \in WriteOutcomes  :
          Ready /\ LineQuiet /\ get_max_temp_limit(servo_id, wr)
    \/ \E servo_id \in ServoIds, wr \in WriteOutcomes  :
          Ready /\ LineQuiet /\ get_temp(servo_id, wr)
    \/ \E servo_id \in ServoIds, wr \in WriteOutcomes  :
          Ready /\ LineQuiet /\ get_vin(servo_id, wr)
    \/ \E servo_id \in ServoIds, wr \in WriteOutcomes  :
          Ready /\ LineQuiet /\ get_pos(servo_id, wr)
    \/ \E servo_id \in ServoIds, wr \in WriteOutcomes  :
          Ready /\ LineQuiet /\ get_motor_mode(servo_id, wr)
    \/ \E servo_id \in ServoIds, wr \in WriteOutcomes  :
          Ready /\ LineQuiet /\ get_is_load(servo_id, wr)
    \/ \E servo_id \in ServoIds, wr \in WriteOutcomes  :
          Ready /\ LineQuiet /\ get_led(servo_id, wr)
    \/ \E servo_id \in ServoIds, wr \in WriteOutcomes  :
          Ready /\ LineQuiet /\ get_led_error(servo_id, wr)

Bus ==
    \/ \E frame \in Answers : DeviceReply(frame)
    \/ Loopback
    \/ \E k \in {Len(wire)} \cup (IF rx = << >> THEN FirstParts ELSE {}) : Arrive(k)

Next ==
    \/ \E has_timeout \in BOOLEAN, open_ok \in BOOLEAN : Ready /\ connect(has_timeout, open_ok)
    \/ Ready /\ disconnect
    \/ Writes
    \/ Queries
    \/ \E servo_id \in ServoIds, command \in ExpectedCommands :
          Ready /\ read_response(servo_id, command)
    \/ Forget
    \/ Poll
    \/ ReadHeader
    \/ ReadBody
    \/ Bus

Spec == Init /\ [][Next]_vars

(* ------------------------------------------------------------------ *)
(* Properties                                                         *)
(* ------------------------------------------------------------------ *)
Finished == call.status \in {"returned", "raised"}
RanRead == \E i \in 1..Len(call.events) : call.events[i] = "read_response"
NotConnected == "RuntimeError: not connected"

\* The bytes the port has handed or will hand to the read_response under way:
\* those it took already, then those still unread.
Fed == call.buffer \o rx

\* s starts with a complete frame that send_command builds for a catalog command.
StartsWithBuiltFrame(s) ==
    /\ Len(s) >= 6
    /\ s[4] >= 3
    /\ Len(s) >= s[4] + 3
    /\ s[5] \in Command
    /\ Slice(s, 0, s[4] + 3) = BuildFrame(s[3], s[5], Slice(s, 5, s[4] + 2))

\* C1: round trip. When the bytes fed to read_response start with the frame that
\* send_command builds for (destination, command, payload), the expected
\* destination and command are those of the frame, and no read timed out, then
\* read_response returns exactly (command, payload).
C1_RoundTrip ==
    (/\ Finished
     /\ RanRead
     /\ ~call.short
     /\ StartsWithBuiltFrame(Fed)
     /\ call.sid = Fed[3]
     /\ call.cmd = <<Fed[5]>>)
    => /\ call.resp = <<Fed[5], Slice(Fed, 5, Fed[4] + 2)>>
       /\ call.op = "read_response"
            => call.status = "returned" /\ call.ret = call.resp

\* A broadcast ID_WRITE frame with a payload went through send_command and back
\* through read_response.
C1_Witness ==
    /\ call.op = "read_response"
    /\ call.status = "returned"
    /\ call.sid = SERVO_BRODCAST
    /\ call.cmd = <<SERVO_ID_WRITE>>
    /\ call.ret = <<SERVO_ID_WRITE, <<255>>>>
    /\ call.buffer = <<85, 85, 254, 4, 13, 255, 241>>

\* C2: every frame written starts with 0x55 0x55 and ends with the complement,
\* masked to 8 bits, of the sum of the bytes from the destination to the last
\* payload byte.
C2_FrameChecksum ==
    call.written # << >> =>
        LET w == call.written
        IN  /\ Len(w) >= 6
            /\ w[1] = 85 /\ w[2] = 85
            /\ w[Len(w)] \in 0..255
            /\ w[Len(w)] = 255 - (Sum(FromToLast(w, 2)) % 256)

\* A frame with a four-byte payload was written.
C2_Witness ==
    /\ call.op = "set_move_time"
    /\ call.written = <<85, 85, 1, 7, 1, 232, 3, 232, 3, 32>>

\* The four conditions on the frame read_response has read.
HeaderOk(b) == Len(b) >= 2 /\ b[1] = 85 /\ b[2] = 85
DestinationOk(b) == call.sid = SERVO_BRODCAST \/ (Len(b) >= 3 /\ b[3] = call.sid)
CommandOk(b) == call.cmd = None \/ (Len(b) >= 5 /\ b[5] = call.cmd[1])
ChecksumOk(b) == Len(b) >= 4 /\ b[Len(b)] = 255 - (Sum(FromToLast(b, 2)) % 256)

\* C3: read_response returns a result only for a frame with the right header,
\* destination, command and checksum; a frame that violates one of them makes
\* the call fail, with no result.
C3_Validation ==
    (Finished /\ RanRead) =>
        LET ok == /\ HeaderOk(call.buffer)
                  /\ DestinationOk(call.buffer)
                  /\ CommandOk(call.buffer)
                  /\ ChecksumOk(call.buffer)
        IN  /\ call.resp # << >> => ok
            /\ ~ok => /\ call.status = "raised"
                      /\ call.resp = << >>
                      /\ call.ret = << >>

\* A reply whose only fault is its checksum was read whole and rejected.
C3_Witness ==
    /\ call.op = "get_pos"
    /\ call.status = "raised"
    /\ call.err = "RuntimeError: Invalid response checksum"
    /\ HeaderOk(call.buffer) /\ DestinationOk(call.buffer) /\ CommandOk(call.buffer)
    /\ ~ChecksumOk(call.buffer)
    /\ ~call.short

\* The facade methods that write a request and read its reply, and those that
\* only write.
GetOps == {"get_move_time", "get_id", "get_angle_offset", "get_angle_limit",
           "get_vin_limit", "get_max_temp_limit", "get_temp", "get_vin", "get_pos",
           "get_motor_mode", "get_is_load", "get_led", "get_led_error"}
SetOps == {"set_move_time", "start_move", "stop_move", "set_id", "set_angle_offset",
           "set_angle_limit", "set_vin_limit", "set_max_temp_limit", "set_motor_mode",
           "set_is_load", "set_led", "set_led_error"}

\* A step in which the caller makes a call of a method.
Calls == call.status = "none" /\ call'.status # "none"

\* C4: while the controller is unconnected, every call other than connect fails
\* with the not-connected error, writes nothing, opens and reads nothing, and
\* leaves the controller unconnected.
C4_Unconnected ==
    [][(Calls /\ handle = None /\ call'.op # "connect")
        => /\ call'.status = "raised"
           /\ call'.err = NotConnected
           /\ call'.written = << >>
           /\ call'.events = << >>
           /\ handle' = None
           /\ opened' = {}
           /\ pc' = "idle"]_vars

\* A query on an unconnected controller failed with the not-connected error.
C4_Witness ==
    /\ handle = None
    /\ opened = {}
    /\ call.op = "get_pos"
    /\ call.status = "raised"
    /\ call.err = NotConnected
    /\ call.written = << >>

\* C5: at most one port is open and it is the one the handle holds; connect on a
\* connected controller opens nothing and keeps the handle; disconnect on a
\* connected controller closes the open port and leaves the controller unconnected.
C5_SingleTransport ==
    /\ [](/\ Cardinality(opened) <= 1
          /\ handle = None <=> opened = {}
          /\ handle # None => opened = {handle[1]})
    /\ [][/\ (Calls /\ handle # None /\ call'.op = "connect")
             => /\ handle' = handle
                /\ opened' = opened
                /\ call'.events = << >>
                /\ call'.status = "returned"
          /\ (Calls /\ handle # None /\ call'.op = "disconnect")
             => /\ handle' = None
                /\ opened' = {}
                /\ call'.events = <<"close">>
                /\ call'.status = "returned"]_vars

\* connect was called on a connected controller and returned without opening a port.
C5_Witness ==
    /\ call.op = "connect"
    /\ call.status = "returned"
    /\ call.events = << >>
    /\ handle # None
    /\ opened = {handle[1]}

\* The argument of the call is outside the range its method accepts.
OutOfRange ==
    LET a == call.args
    IN  CASE call.op = "set_move_time" ->
               a[1] < 0 \/ a[1] > 1000 \/ a[2] < 0 \/ a[2] > 30000
          [] call.op = "set_angle_offset" -> a[1] < -125 \/ a[1] > 125
          [] call.op = "set_angle_limit" ->
               a[1] < 0 \/ a[1] > 1000 \/ a[2] < 0 \/ a[2] > 1000
          [] call.op = "set_vin_limit" ->
               a[1] < 4500 \/ a[1] > 12000 \/ a[2] < 4500 \/ a[2] > 12000
          [] call.op = "set_max_temp_limit" -> a[1] < 50 \/ a[1] > 100
          [] call.op = "set_motor_mode" ->
               a[1] # None /\ (a[1][1] < -1000 \/ a[1][1] > 1000)
          [] OTHER -> FALSE

RangeErrors ==
    {"RuntimeError: Invalid position", "RuntimeError: Invalid time",
     "ValueError: Invalid offset", "RuntimeError: Invalid min angle",
     "RuntimeError: Invalid max angle", "RuntimeError: Invalid min vin",
     "RuntimeError: Invalid max vin", "RuntimeError: Invalid max temp",
     "ValueError: Invalid speed"}

\* C6: on a connected controller a setter called with an argument outside its
\* range fails with a range error and nothing is written to the port.
C6_RangeBeforeWrite ==
    (Finished /\ handle # None /\ OutOfRange)
    => /\ call.status = "raised"
       /\ call.err \in RangeErrors
       /\ call.written = << >>
       /\ call.events = << >>

\* set_vin_limit was refused for its second argument alone.
C6_Witness ==
    /\ handle # None
    /\ call.op = "set_vin_limit"
    /\ call.args[1] = 4500
    /\ call.args[2] = 12001
    /\ call.status = "raised"
    /\ call.err = "RuntimeError: Invalid max vin"
    /\ call.written = << >>

\* C7: a get method that returns has made exactly one write and then exactly one
\* read_response; no get method does more; a method that only writes makes at
\* most one write and never reads; and while a reply is awaited exactly one
\* request of the call has been written.
C7_SingleTransaction ==
    /\ (call.op \in GetOps /\ call.status = "returned")
       => call.events = <<"write", "read_response">>
    /\ call.op \in GetOps
       => call.events \in {<< >>, <<"write">>, <<"write", "read_response">>}
    /\ call.op \in SetOps => call.events \in {<< >>, <<"write">>}
    /\ (call.op \in GetOps /\ pc # "idle")
       => /\ call.status = "running"
          /\ call.events = <<"write", "read_response">>
          /\ call.written = BuildFrame(call.sid, call.cmd[1], << >>)

\* get_pos returned a position after one write and one read.
C7_Witness ==
    /\ call.op = "get_pos"
    /\ call.status = "returned"
    /\ call.events = <<"write", "read_response">>
    /\ call.written = BuildFrame(1, SERVO_POS_READ, << >>)
    /\ handle # None

\* A set_id call on a connected controller with a target id in 0..253 is over
\* and the port did not refuse the write.
SetIdDone ==
    /\ Finished
    /\ handle # None
    /\ call.op = "set_id"
    /\ call.args[1] \in 0..253
    /\ call.err # "SerialException"

\* C8: set_id with the broadcast destination and a target id in 0..253 warns,
\* writes exactly one frame and does not fail.
C8_BroadcastSetIdWarns ==
    (SetIdDone /\ call.sid = SERVO_BRODCAST)
    => /\ call.warned
       /\ call.status = "returned"
       /\ call.events = <<"write">>
       /\ call.written # << >>

\* C9: set_id with a target id in 0..253 writes exactly one frame, addressed to
\* servo_id, with command ID_WRITE and the target id as its one payload byte.
C9_SetIdFrame ==
    SetIdDone
    => /\ call.events = <<"write">>
       /\ call.written = BuildFrame(call.sid, SERVO_ID_WRITE, <<call.args[1]>>)

C11_LedErrorMask ==
    (/\ Finished
     /\ handle # None
     /\ call.op = "set_led_error"
     /\ call.err # "SerialException")
    => LET a == call.args
           status == (IF a[1] THEN 1 ELSE 0) + (IF a[2] THEN 2 ELSE 0)
                     + (IF a[3] THEN 4 ELSE 0)
       IN  /\ call.events = <<"write">>
           /\ call.written = BuildFrame(call.sid, SERVO_LED_ERROR_WRITE, <<status>>)

\* The device has answered the request of a get method with a frame that
\* read_response accepted: right header, destination, opcode and checksum, and
\* a payload that carries a value.
Answered ==
    /\ Finished
    /\ call.op \in GetOps
    /\ call.resp # << >>
    /\ ~call.short
    /\ call.buffer[3] = Answering(call.sid)
    /\ call.buffer[5] = call.written[5]
    /\ Len(call.resp[2]) = (IF call.written[5] \in WideReplies THEN 4 ELSE 1)

\* C12: a get method whose request was answered with a well-formed frame of the
\* same opcode returns and does not fail; get_move_time returns the
\* (position, time) pair of the payload, whether is_wait or not.
C12_GetReturnsDecoded ==
    Answered
    => /\ call.status = "returned"
       /\ call.op = "get_move_time"
          => call.ret = <<bytes2param(Slice(call.resp[2], 0, 2), FALSE),
                          bytes2param(Slice(call.resp[2], 2, 4), FALSE)>>

(* ------------------------------------------------------------------ *)
(* utility.py: degree conversions                                     *)
(* ------------------------------------------------------------------ *)
\* int(n / d) for integers n and d > 0: Python's int() of a float drops the
\* fraction, towards zero. (For the integer degrees used here the float quotient
\* is exact or at least 1/d away from an integer, so no rounding of the
\* division itself changes the result.)
IntOfQuotient(n, d) == IF n >= 0 THEN n \div d ELSE -((-n) \div d)

\* How far outside the accepted range the degrees tried go.
DegreeMargin == 1
CmdDegrees == (0 - DegreeMargin)..(240 + DegreeMargin)
OffsetDegrees == (-30 - DegreeMargin)..(30 + DegreeMargin)

\* degree2cmd(degree): the call and its outcome.
degree2cmd(degree) ==
    /\ pc = "idle"
    /\ LET c == NewCall("degree2cmd", 0, <<degree>>)
       IN  Done(IF degree < 0 \/ degree > 240
                THEN Raise(c, "ValueError: Degree should be in range [0, 240]")
                ELSE Return(c, <<IntOfQuotient(degree * 1000, 240)>>))

\* degree2offset(degree): the call and its outcome.
degree2offset(degree) ==
    /\ pc = "idle"
    /\ LET c == NewCall("degree2offset", 0, <<degree>>)
       IN  Done(IF degree < -30 \/ degree > 30
                THEN Raise(c, "ValueError: Degree should be in range [-30, 30]")
                ELSE Return(c, <<IntOfQuotient(degree * 125, 30)>>))

\* A program that only converts degrees: the controller stays as it was created.
NextUtility ==
    \/ \E degree \in CmdDegrees : Ready /\ degree2cmd(degree)
    \/ \E degree \in OffsetDegrees : Ready /\ degree2offset(degree)
    \/ Forget

SpecUtility == Init /\ [][NextUtility]_vars

\* v is an integer nearest to n / d (either neighbour when n / d lies halfway).
Nearest(v, n, d) ==
    LET diff == v * d - n
    IN  2 * (IF diff < 0 THEN -diff ELSE diff) <= d

\* C13: degree2cmd returns degree * 1000 / 240 rounded to the nearest integer for
\* every integer degree in 0..240, 0 for 0 and 1000 for 240, and fails with a
\* range error outside 0..240.
C13_Degree2CmdRounds ==
    (Finished /\ call.op = "degree2cmd")
    => LET degree == call.args[1]
       IN  IF degree < 0 \/ degree > 240
           THEN call.status = "raised"
           ELSE /\ call.status = "returned"
                /\ Nearest(call.ret[1], degree * 1000, 240)
                /\ degree = 0 => call.ret[1] = 0
                /\ degree = 240 => call.ret[1] = 1000

\* C14: degree2offset returns degree * 125 / 30 rounded to the nearest integer
\* for every integer degree in -30..30, -125 for -30, 0 for 0 and 125 for 30,
\* and fails with a range error outside -30..30.
C14_Degree2OffsetRounds ==
    (Finished /\ call.op = "degree2offset")
    => LET degree == call.args[1]
       IN  IF degree < -30 \/ degree > 30
           THEN call.status = "raised"
           ELSE /\ call.status = "returned"
                /\ Nearest(call.ret[1], degree * 125, 30)
                /\ degree = -30 => call.ret[1] = -125
                /\ degree = 0 => call.ret[1] = 0
                /\ degree = 30 => call.ret[1] = 125

\* The interpreter keeps running the call under way: each step of read_response
\* that can be taken is taken in the end. The bus owes nothing.
SpecLive == Spec /\ WF_vars(Poll) /\ WF_vars(ReadHeader) /\ WF_vars(ReadBody)

\* The servo has put nothing on the line for the call under way.
Silent == ~call.answered /\ rx = << >> /\ wire = << >>

\* C15: on a port with a read timeout, a get method waiting for a servo that
\* stays silent comes back to its caller in the end.
C15_TimeoutBoundsWait ==
    (call.op \in GetOps /\ pc = "poll" /\ timeout /\ Silent) ~> (Finished \/ ~Silent)

\* C16: get_angle_offset writes one ANGLE_OFFSET_READ frame with no payload,
\* takes as its reply only a frame whose command byte is ANGLE_OFFSET_READ, and
\* returns that payload decoded as a signed integer.
C16_AngleOffsetRead ==
    (/\ call.op = "get_angle_offset"
     /\ handle # None
     /\ call.err # "SerialException"
     /\ call.status # "none")
    => /\ call.written = BuildFrame(call.sid, SERVO_ANGLE_OFFSET_READ, << >>)
       /\ call.status = "returned"
          => /\ call.buffer[5] = SERVO_ANGLE_OFFSET_READ
             /\ call.ret = <<bytes2param(call.resp[2], TRUE)>>

\* The length the catalog declares for each command (the "length:" comments of
\* the Command enumeration).
CatalogLength(command) ==
    IF command \in { SERVO_MOVE_TIME_WRITE, SERVO_MOVE_TIME_WAIT_WRITE,
                     SERVO_ANGLE_LIMIT_WRITE, SERVO_VIN_LIMIT_WRITE,
                     SERVO_OR_MOTOR_MODE_WRITE }
    THEN 7
    ELSE IF command \in { SERVO_ID_WRITE, SERVO_ANGLE_OFFSET_ADJUST,
                          SERVO_TEMP_MAX_LIMIT_WRITE, SERVO_LOAD_OR_UNLOAD_WRITE,
                          SERVO_LED_CTRL_WRITE, SERVO_LED_ERROR_WRITE }
    THEN 4
    ELSE 3

C18_WaitsForHeader ==
    (RanRead /\ pc \notin {"poll", "read4"}) => Len(call.buffer) >= 4

\* C19: what a rejecting read_response has taken from the input buffer, when no
\* read was cut short. A rejection after the first read (wrong header or
\* destination) has taken exactly the first 4 bytes and left the rest where it
\* was; a rejection for the command or the checksum has taken the whole frame,
\* 4 + length - 1 bytes, and left what follows it.
C19_FramingAfterReject ==
    [][/\ (pc = "read4" /\ pc' = "idle" /\ ~call'.short)
          => /\ call'.status = "raised"
             /\ ~HeaderOk(call'.buffer) \/ ~DestinationOk(call'.buffer)
             /\ call'.buffer = Slice(rx, 0, 4)
             /\ rx' = From(rx, 4)
       /\ (/\ pc = "rest" /\ pc' = "idle" /\ ~call'.short
           /\ call.buffer[4] >= 3
           /\ call'.err \in {"RuntimeError: Invalid response command",
                             "RuntimeError: Invalid response checksum"})
          => /\ call'.status = "raised"
             /\ Len(call'.buffer) = 4 + call.buffer[4] - 1
             /\ call'.buffer = Slice(call.buffer \o rx, 0, 4 + call.buffer[4] - 1)
             /\ rx' = From(rx, call.buffer[4] - 1)]_vars

\* A whole frame from another servo was in the input buffer; read_response
\* rejected it after the first read and the frame's last three bytes are still there.
C19_Witness ==
    /\ call.status = "raised"
    /\ call.err = "RuntimeError: Invalid response servo ID"
    /\ ~call.short
    /\ call.buffer = <<85, 85, 2, 4>>
    /\ Len(rx) = 3
    /\ call.buffer \o rx = BuildFrame(2, rx[1], <<5>>)

\* C20: when the reply get_motor_mode accepts carries the payload that
\* set_motor_mode builds for a speed in -1000..1000 (mode byte 1, a zero byte,
\* the speed as a signed 16-bit little-endian field), get_motor_mode returns
\* (TRUE, speed).
C20_MotorModeRoundTrip ==
    \A speed \in -1000..1000 :
        (/\ Finished
         /\ call.op = "get_motor_mode"
         /\ call.resp # << >>
         /\ call.resp[2] = <<1, 0>> \o param2bytes(speed, 2, TRUE))
        => /\ call.status = "returned"
           /\ call.ret = <<TRUE, speed>>

====
